---------------------------- MODULE Spec2Model ----------------------------
(***************************************************************************)
(* A model of the Node.js legacy-worker buildpack (cmd/nodejs/legacy_worker *)
(* main.go), of the buildpacktest harness that runs a detect or build       *)
(* function as a helper process, and of the engine operations they use      *)
(* (version resolution, cache check, environment composition, exec mocks).  *)
(*                                                                          *)
(* Engine packages whose code is not among the source files (pkg/nodejs,    *)
(* pkg/cache, pkg/gcpbuildpack, internal/buildpacktestenv, the lifecycle's  *)
(* environment composition) are modelled from the specification; the        *)
(* comments on those definitions say so.                                    *)
(***************************************************************************)
EXTENDS Integers, Sequences, FiniteSets, TLC

VARIABLES
    osEnv,      \* the process environment: name -> [ok, val] (os.LookupEnv)
    \* --- TestRequestedNodejsVersion (one table case run to completion)
    tc,         \* the test case: nodeEnv, runtimeEnv, packageJSON, want
    pjs,        \* *PackageJSON handed to RequestedNodejsVersion (Nil or parsed)
    got,        \* the returned version string
    gotErr,     \* the returned error (TRUE: non-nil)
    tpc,        \* position in the test body
    \* --- a phase run (one helper or driver process), and the disk it works on
    cfg,        \* the run: buildpackPhase, fn (the function under test), runner
    l,          \* the layer the build function acquired (NoLayer before)
    locals,     \* locals of buildFn and installLegacyWorker
    processes,  \* processes added by ctx.AddWebProcess
    events,     \* what the Context did, in order: Exec, ClearLayer, Exit, ...
    pc,         \* position in the phase run
    ret,        \* what the function under test returned
    phaseResult,\* (phasePassed, err) of runBuildpackPhase
    exitCode,   \* exit code of the process (NotExited while it runs)
    appFiles,   \* paths that exist under the application root
    packageJSON,\* nodejs.ReadPackageJSON of the application: [err, Main]
    bpFiles,    \* converter files under the buildpack root: path -> [ok, data]
    layerMeta,  \* the layer's metadata on disk: the signature last persisted
    layerDir,   \* entries of the layer's directory on disk
    layerEnvFiles, \* the launch environment files last persisted
    \* --- the cache engine on its own, build after build of one layer
    ck,         \* the CheckCache call of this build: [tokens, paths]
    cres,       \* what it returned: [err, hit, sig]
    stored,     \* tokens and file contents of the build that last persisted
    cpc,        \* position in the build
    \* --- environment composition: operations recorded, then applied in order
    ambient,    \* the environment of the consuming process before any layer
    recorded,   \* the operations recorded on the layer, in order
    cenv,       \* the environment composed so far
    before,     \* the environment before the operation applied last
    applied,    \* how many of the recorded operations are applied
    launching,  \* TRUE once the build is over and the operations are being applied
    \* --- exec mocks of the harness
    opts,       \* the WithExecMock options handed to RunBuild, in order
    mockProcessMap, \* cfg.mockProcessMap: command regex -> MockProcess
    execCmd,    \* what the Context's exec runs: "real", "mock" ("unset" before)
    command,    \* the command line the function issued through ctx.Exec
    result,     \* what ctx.Exec gave back for it
    spawned,    \* the command lines run as real processes
    \* --- two runs of the legacy worker's functions on one Context snapshot
    ctxEnv,     \* the environment when the Context was constructed
    ctxTree,    \* the application tree of both runs
    runEnv,     \* the process environment of each run when the function runs
    outcome,    \* what each run gave: detect result, error, operations
    spc,        \* "constructed", then "ran"
    \* --- the captured output of a phase and Result.CommandExecuted on it
    output,     \* Result.Output, word by word
    executed,   \* the commands executed through ctx.Exec during the phase
    asked,      \* the command CommandExecuted was last asked about
    answer      \* what it returned

versionVars == <<tc, pjs, got, gotErr, tpc>>
procVars == <<cfg, l, locals, processes, events, pc, ret, phaseResult, exitCode>>
diskVars == <<appFiles, packageJSON, bpFiles, layerMeta, layerDir, layerEnvFiles>>
cacheVars == <<ck, cres, stored, cpc>>
composeVars == <<ambient, recorded, cenv, before, applied, launching>>
mockVars == <<opts, mockProcessMap, execCmd, command, result, spawned>>
snapshotVars == <<ctxEnv, ctxTree, runEnv, outcome, spc>>
outputVars == <<output, executed, asked, answer>>

nonVersionVars == <<procVars, diskVars, cacheVars, composeVars, mockVars, snapshotVars, outputVars>>
nonPhaseVars == <<versionVars, cacheVars, composeVars, mockVars, snapshotVars, outputVars>>
nonCacheVars == <<osEnv, versionVars, procVars, composeVars, mockVars, snapshotVars, outputVars>>
nonComposeVars == <<osEnv, versionVars, procVars, diskVars, cacheVars, mockVars, snapshotVars, outputVars>>
nonSnapshotVars ==
    <<osEnv, versionVars, procVars, diskVars, cacheVars, composeVars, mockVars, outputVars>>
nonOutputVars ==
    <<osEnv, versionVars, procVars, diskVars, cacheVars, composeVars, mockVars, snapshotVars>>
nonMockVars == <<osEnv, versionVars, procVars, diskVars, cacheVars, composeVars, snapshotVars, outputVars>>

\* No exit code yet: the process is running.
NotExited == 0 - 1

(***************************************************************************)
(* The process environment.                                                 *)
(***************************************************************************)
NodejsVersion == "GOOGLE_NODEJS_VERSION"
RuntimeVersion == "GOOGLE_RUNTIME_VERSION"
FunctionTarget == "GOOGLE_FUNCTION_TARGET"
FunctionSource == "GOOGLE_FUNCTION_SOURCE"
FunctionSignatureType == "GOOGLE_FUNCTION_SIGNATURE_TYPE"
DebugMode == "GOOGLE_DEBUG"

EnvNames == {NodejsVersion, RuntimeVersion, FunctionTarget, FunctionSource,
             FunctionSignatureType, DebugMode}

Unset == [ok |-> FALSE, val |-> ""]
SetTo(v) == [ok |-> TRUE, val |-> v]

\* os.LookupEnv: the value and whether the variable is present.
LookupEnv(e, k) == e[k]
\* os.Getenv: the value, "" when the variable is not present.
Getenv(e, k) == IF e[k].ok THEN e[k].val ELSE ""
\* os.Setenv / t.Setenv
Setenv(e, k, v) == [e EXCEPT ![k] = SetTo(v)]

EmptyEnv == [k \in EnvNames |-> Unset]

(***************************************************************************)
(* Version resolution (pkg/nodejs RequestedNodejsVersion) and its test.     *)
(***************************************************************************)
Nil == [nil |-> TRUE]

\* The package.json texts the test hands to json.Unmarshal, and what
\* json.Unmarshal makes of each (only engines.node matters here).
JSONEngines222 == "{\"engines\": {\"node\": \"2.2.2\"}}"
JSONEnginesEmpty == "{\"engines\": {\"node\": \"\"}}"
JSONNoEngines == "{}"

Unmarshal(text) ==
    CASE text = JSONEngines222 -> [Engines |-> [Node |-> "2.2.2"]]
      [] text = JSONEnginesEmpty -> [Engines |-> [Node |-> ""]]
      [] text = JSONNoEngines -> [Engines |-> [Node |-> ""]]

\* The table of TestRequestedNodejsVersion, with the result each case wants.
TestCases ==
    { [name |-> "default is empty",
       nodeEnv |-> "", runtimeEnv |-> "", packageJSON |-> "", want |-> ""],
      [name |-> "GOOGLE_NODEJS_VERSION is set",
       nodeEnv |-> "1.2.3", runtimeEnv |-> "", packageJSON |-> "", want |-> "1.2.3"],
      [name |-> "GOOGLE_RUNTIME_VERSION is set",
       nodeEnv |-> "", runtimeEnv |-> "3.3.3", packageJSON |-> "", want |-> "3.3.3"],
      [name |-> "GOOGLE_NODEJS_VERSION and GOOGLE_RUNTIME_VERSION set",
       nodeEnv |-> "1.2.3", runtimeEnv |-> "3.3.3", packageJSON |-> "", want |-> "1.2.3"],
      [name |-> "engines.nodejs",
       nodeEnv |-> "", runtimeEnv |-> "", packageJSON |-> JSONEngines222, want |-> "2.2.2"],
      [name |-> "GOOGLE_RUNTIME_VERSION and engines.nodejs set",
       nodeEnv |-> "", runtimeEnv |-> "3.3.3", packageJSON |-> JSONEngines222,
       want |-> "3.3.3"] }

\* Every other combination of the three sources; these carry no wanted result.
OtherCases ==
    { [name |-> "", nodeEnv |-> n, runtimeEnv |-> r, packageJSON |-> p, want |-> "?"] :
        n \in {"", "1.2.3"}, r \in {"", "3.3.3"},
        p \in {"", JSONNoEngines, JSONEnginesEmpty, JSONEngines222} }

\* The environment the test process starts with: each of the two version
\* variables absent, present and empty, or present with a value.
AmbientVersionEnvs ==
    { [EmptyEnv EXCEPT ![NodejsVersion] = a, ![RuntimeVersion] = b] :
        a \in {Unset, SetTo(""), SetTo("9.9.9")}, b \in {Unset, SetTo(""), SetTo("8.8.8")} }

\* A resolution that asks the generic override before the language-specific one.
RequestedNodejsVersionGenericFirst(e, p) ==
    IF Getenv(e, RuntimeVersion) # "" THEN Getenv(e, RuntimeVersion)
    ELSE IF Getenv(e, NodejsVersion) # "" THEN Getenv(e, NodejsVersion)
    ELSE IF p = Nil THEN ""
    ELSE p.Engines.Node

\* RequestedNodejsVersion(ctx, pjs): the language-specific override, else the
\* generic override, else the manifest's engines.node, else "".  Modelled from
\* the specification (section 4.5); the function's code is in pkg/nodejs.
RequestedNodejsVersion(e, p) ==
    IF Getenv(e, NodejsVersion) # "" THEN Getenv(e, NodejsVersion)
    ELSE IF Getenv(e, RuntimeVersion) # "" THEN Getenv(e, RuntimeVersion)
    ELSE IF p = Nil THEN ""
    ELSE p.Engines.Node

VersionIdle ==
    /\ tc = [name |-> "", nodeEnv |-> "", runtimeEnv |-> "", packageJSON |-> "", want |-> ""]
    /\ pjs = Nil
    /\ got = ""
    /\ gotErr = FALSE
    /\ tpc = "idle"

VersionInit ==
    /\ osEnv \in AmbientVersionEnvs
    /\ tc \in TestCases \cup OtherCases
    /\ pjs = Nil
    /\ got = ""
    /\ gotErr = FALSE
    /\ tpc = "unmarshal"

\* var pjs *PackageJSON; if tc.packageJSON != "" { json.Unmarshal(..., &pjs) }
TestUnmarshal ==
    /\ tpc = "unmarshal"
    /\ pjs' = IF tc.packageJSON # "" THEN Unmarshal(tc.packageJSON) ELSE Nil
    /\ tpc' = "setenvNode"
    /\ UNCHANGED <<osEnv, tc, got, gotErr>>
    /\ UNCHANGED nonVersionVars

\* if tc.nodeEnv != "" { t.Setenv("GOOGLE_NODEJS_VERSION", tc.nodeEnv) }
TestSetenvNode ==
    /\ tpc = "setenvNode"
    /\ osEnv' = IF tc.nodeEnv # "" THEN Setenv(osEnv, NodejsVersion, tc.nodeEnv) ELSE osEnv
    /\ tpc' = "setenvRuntime"
    /\ UNCHANGED <<tc, pjs, got, gotErr>>
    /\ UNCHANGED nonVersionVars

\* if tc.runtimeEnv != "" { t.Setenv("GOOGLE_RUNTIME_VERSION", tc.runtimeEnv) }
TestSetenvRuntime ==
    /\ tpc = "setenvRuntime"
    /\ osEnv' = IF tc.runtimeEnv # "" THEN Setenv(osEnv, RuntimeVersion, tc.runtimeEnv)
                ELSE osEnv
    /\ tpc' = "call"
    /\ UNCHANGED <<tc, pjs, got, gotErr>>
    /\ UNCHANGED nonVersionVars

\* ctx := gcp.NewContext(); got, err := RequestedNodejsVersion(ctx, pjs)
TestCall ==
    /\ tpc = "call"
    /\ got' = RequestedNodejsVersion(osEnv, pjs)
    /\ gotErr' = FALSE
    /\ tpc' = "done"
    /\ UNCHANGED <<osEnv, tc, pjs>>
    /\ UNCHANGED nonVersionVars

VersionNext == TestUnmarshal \/ TestSetenvNode \/ TestSetenvRuntime \/ TestCall

(***************************************************************************)
(* A phase run: the harness helper process (runBuildpackPhaseMain) or the   *)
(* driver (gcp.Main) runs one detect or build function to an exit code.     *)
(***************************************************************************)
detectPhase == "Detect"
buildPhase == "Build"

AppRoot == "/workspace"
BuildpackRoot == "/buildpack"
layerName == "legacy-worker"
LayerPath == "/layers/" \o layerName

\* filepath.Join of two elements
Join(a, b) == a \o "/" \o b

\* cvt, pjs and wjs of installLegacyWorker
ConverterDir == Join(Join(BuildpackRoot, "converter"), "worker")
ConverterPJS == Join(ConverterDir, "package.json")
ConverterWJS == Join(ConverterDir, "worker.js")

\* nodejs.EnvProduction, the one string token of the worker layer's cache key
EnvProduction == "production"

NoFile == [ok |-> FALSE, data |-> ""]
File(d) == [ok |-> TRUE, data |-> d]

\* An error value: nil, a user error (gcp.UserErrorf), an internal error
\* (gcp.InternalErrorf) or a plain Go error (fmt.Errorf, a library's error).
NoErr == [kind |-> "nil", msg |-> ""]
UserErrorf(m) == [kind |-> "user", msg |-> m]
InternalErrorf(m) == [kind |-> "internal", msg |-> m]
Errorf(m) == [kind |-> "plain", msg |-> m]
\* fmt.Errorf("<prefix>: %w", err) and fmt.Errorf("<prefix>: %v", err)
Wrap(prefix, err) == [kind |-> "plain", msg |-> prefix \o ": " \o err.msg]

\* What a function under test has produced so far.
Running == [kind |-> "running", msg |-> "", pass |-> FALSE]
Returned(err, pass) == [kind |-> err.kind, msg |-> err.msg, pass |-> pass]

\* ctx.FileExists(name), relative to the application root
FileExists(name) == name \in appFiles

\* An environment operation recorded on a layer.
Op(kind, name, sep, value) == [kind |-> kind, name |-> name, sep |-> sep, value |-> value]
Default(ops, name, value) == Append(ops, Op("default", name, "", value))
Override(ops, name, value) == Append(ops, Op("override", name, "", value))
Prepend(ops, name, sep, value) == Append(ops, Op("prepend", name, sep, value))
AppendOp(ops, name, sep, value) == Append(ops, Op("append", name, sep, value))

PathListSeparator == ":"

NoLayer == [acquired |-> FALSE]

(***************************************************************************)
(* Layer and cache engine (pkg/gcpbuildpack ctx.Layer, ctx.ClearLayer;      *)
(* pkg/cache and nodejs.CheckCache).  Modelled from the specification,      *)
(* sections 3 and 4.2.                                                      *)
(***************************************************************************)
NoSig == <<>>

\* A digest that forgets the order of the tokens and of the files.
SignatureUnordered(tokens, contents) ==
    << {tokens[i] : i \in 1..Len(tokens)}, {contents[i] : i \in 1..Len(contents)} >>

\* The cache signature: a digest of the ordered tokens and the ordered file
\* contents, equal for two inputs iff tokens and contents agree in order.
\* The digest is modelled by the pair it is injective on.
Signature(tokens, contents) == <<tokens, contents>>

\* The contents of the listed files, in order.
Contents(fs, paths) == [i \in 1..Len(paths) |-> fs[paths[i]].data]

\* A cache check that compares the file contents and not the tokens.
CheckCacheFilesOnly(meta, tokens, paths, fs) ==
    IF \E i \in 1..Len(paths) : ~fs[paths[i]].ok
    THEN [err |-> Errorf("hashing files"), hit |-> FALSE, sig |-> meta]
    ELSE LET sig == Signature(tokens, Contents(fs, paths))
         IN  [err |-> NoErr, hit |-> meta # NoSig /\ meta[2] = sig[2], sig |-> sig]

\* CheckCache(layer, tokens, files): an error when a listed file cannot be
\* read; else a fresh signature compared with the one the previous build
\* stored (none stored: a miss).  sig is what the layer's metadata holds after.
CheckCache(meta, tokens, paths, fs) ==
    IF \E i \in 1..Len(paths) : ~fs[paths[i]].ok
    THEN [err |-> Errorf("hashing files"), hit |-> FALSE, sig |-> meta]
    ELSE LET sig == Signature(tokens, Contents(fs, paths))
         IN  [err |-> NoErr, hit |-> meta = sig, sig |-> sig]

\* ctx.Layer(name, flags...): the layer with the metadata of the previous build.
Layer(build, cache, launch) ==
    [acquired |-> TRUE, Path |-> LayerPath,
     Build |-> build, Cache |-> cache, Launch |-> launch,
     Metadata |-> layerMeta, LaunchEnvironment |-> <<>>, BuildEnvironment |-> <<>>]

(***************************************************************************)
(* The helper process: runBuildpackPhase up to the call of the function.    *)
(***************************************************************************)
Log(e) == Append(events, e)

\* runBuildpackPhase, lines 306-346: temp dirs, debug mode, the
\* context, the app's files, chdir.  Each of those steps can fail, and then
\* the function under test is never called.
HarnessSetupFail ==
    /\ pc = "setup"
    /\ cfg.runner = "harness"
    /\ \E m \in {"writing file", "changing to code dir"} :
          phaseResult' = [passed |-> FALSE, err |-> Errorf(m)]
    /\ pc' = "main"
    /\ UNCHANGED <<osEnv, cfg, l, locals, processes, events, ret, exitCode>>
    /\ UNCHANGED <<diskVars, nonPhaseVars>>

HarnessSetup ==
    /\ pc = "setup"
    /\ cfg.runner = "harness"
    /\ osEnv' = Setenv(osEnv, DebugMode, "true")
    /\ pc' = "call"
    /\ UNCHANGED <<cfg, l, locals, processes, events, ret, phaseResult, exitCode>>
    /\ UNCHANGED <<diskVars, nonPhaseVars>>

\* gcp.Main(detectFn, buildFn): the driver builds a Context and calls the
\* function of the phase (specification, section 4.1).
DriverStart ==
    /\ pc = "setup"
    /\ cfg.runner = "driver"
    /\ pc' = "call"
    /\ UNCHANGED <<osEnv, cfg, l, locals, processes, events, ret, phaseResult, exitCode>>
    /\ UNCHANGED <<diskVars, nonPhaseVars>>

(***************************************************************************)
(* The functions under test.                                                *)
(***************************************************************************)
\* gcp.OptInEnvSet / gcp.OptOutEnvNotSet
OptInEnvSet(name) == [Pass |-> TRUE, Reason |-> name \o " set"]
OptOutEnvNotSet(name) == [Pass |-> FALSE, Reason |-> name \o " not set"]

\* detectFn of the legacy worker: opt in iff the function target is present.
detectFnResult(e) ==
    IF LookupEnv(e, FunctionTarget).ok THEN OptInEnvSet(FunctionTarget)
    ELSE OptOutEnvNotSet(FunctionTarget)

detectFn ==
    /\ pc = "call"
    /\ cfg.buildpackPhase = detectPhase
    /\ cfg.fn = "legacy"
    /\ ret' = Returned(NoErr, detectFnResult(osEnv).Pass)
    /\ events' = Log([op |-> "Detect", reason |-> detectFnResult(osEnv).Reason])
    /\ pc' = "returned"
    /\ UNCHANGED <<osEnv, cfg, l, locals, processes, phaseResult, exitCode>>
    /\ UNCHANGED <<diskVars, nonPhaseVars>>

\* Any other detect function: it passes, opts out with a reason, or returns a
\* user or an internal error.
StubDetectFn ==
    /\ pc = "call"
    /\ cfg.buildpackPhase = detectPhase
    /\ cfg.fn = "stub"
    /\ \E r \in { Returned(NoErr, TRUE), Returned(NoErr, FALSE),
                  Returned(UserErrorf("bad app"), FALSE),
                  Returned(InternalErrorf("engine fault"), FALSE) } :
          ret' = r
    /\ pc' = "returned"
    /\ UNCHANGED <<osEnv, cfg, l, locals, processes, events, phaseResult, exitCode>>
    /\ UNCHANGED <<diskVars, nonPhaseVars>>

\* ctx.Exit(code, err): the phase ends here with the given exit code
\* (specification, section 4.1); nothing after the call runs.
Exit(code, err) ==
    /\ events' = Log([op |-> "Exit", code |-> code, err |-> err])
    /\ exitCode' = code
    /\ pc' = "exited"

\* Any other build function: it returns nil, a user error or an internal
\* error, or it ends the phase with ctx.Exit and a failure code.
StubBuildFnReturn ==
    /\ pc = "call"
    /\ cfg.buildpackPhase = buildPhase
    /\ cfg.fn = "stub"
    /\ \E e \in {NoErr, UserErrorf("bad app"), InternalErrorf("engine fault")} :
          ret' = Returned(e, FALSE)
    /\ pc' = "returned"
    /\ UNCHANGED <<osEnv, cfg, l, locals, processes, events, phaseResult, exitCode>>
    /\ UNCHANGED <<diskVars, nonPhaseVars>>

StubBuildFnExit ==
    /\ pc = "call"
    /\ cfg.buildpackPhase = buildPhase
    /\ cfg.fn = "stub"
    /\ \E code \in {1, 2} : Exit(code, InternalErrorf("engine fault"))
    /\ UNCHANGED <<osEnv, cfg, l, locals, processes, ret, phaseResult>>
    /\ UNCHANGED <<diskVars, nonPhaseVars>>

(***************************************************************************)
(* buildFn of the legacy worker, statement by statement.                    *)
(***************************************************************************)
InBuildFn(at) ==
    /\ pc = at
    /\ cfg.buildpackPhase = buildPhase
    /\ cfg.fn = "legacy"

Return(err) ==
    /\ ret' = Returned(err, FALSE)
    /\ pc' = "returned"

\* lines 53-55: the function source variable is not supported.
BuildCheckSource ==
    /\ InBuildFn("call")
    /\ IF LookupEnv(osEnv, FunctionSource).ok
       THEN Return(UserErrorf(FunctionSource
                     \o " is not currently supported for Node.js buildpacks"))
       ELSE pc' = "B59" /\ UNCHANGED ret
    /\ UNCHANGED <<osEnv, cfg, l, locals, processes, events, phaseResult, exitCode>>
    /\ UNCHANGED <<diskVars, nonPhaseVars>>

\* A selection that prefers index.js to package.json's main.
SelectFnFileIndexFirst ==
    IF FileExists("index.js") THEN "index.js"
    ELSE IF FileExists("package.json") /\ packageJSON.Main # "" THEN packageJSON.Main
    ELSE "function.js"

\* The file lines 59-71 select: package.json's main when it is non-empty,
\* else index.js when it exists, else function.js.
SelectFnFile ==
    IF FileExists("package.json") /\ packageJSON.Main # "" THEN packageJSON.Main
    ELSE IF FileExists("index.js") THEN "index.js"
    ELSE "function.js"

\* lines 59-71
BuildSelectFnFile ==
    /\ InBuildFn("B59")
    /\ IF FileExists("package.json") /\ packageJSON.err
       THEN Return(Errorf("reading package.json")) /\ UNCHANGED locals
       ELSE /\ locals' = [locals EXCEPT !.fnFile = SelectFnFile]
            /\ pc' = "B73"
            /\ UNCHANGED ret
    /\ UNCHANGED <<osEnv, cfg, l, processes, events, phaseResult, exitCode>>
    /\ UNCHANGED <<diskVars, nonPhaseVars>>

\* lines 73-75
BuildCheckFnFile ==
    /\ InBuildFn("B73")
    /\ IF ~FileExists(locals.fnFile)
       THEN Return(UserErrorf(locals.fnFile \o " does not exist"))
       ELSE pc' = "B78" /\ UNCHANGED ret
    /\ UNCHANGED <<osEnv, cfg, l, locals, processes, events, phaseResult, exitCode>>
    /\ UNCHANGED <<diskVars, nonPhaseVars>>

\* ctx.Exec(cmd, ...): the command runs and its exit code comes back in the
\* result (specification, section 4.4); the callers here drop the result.
Exec(cmd, code) == Log([op |-> "Exec", cmd |-> cmd, exit |-> code])

\* line 78: node --check <fnFile>
BuildSyntaxCheck ==
    /\ InBuildFn("B78")
    /\ \E code \in {0, 1} : events' = Exec(<<"node", "--check", locals.fnFile>>, code)
    /\ pc' = "B80"
    /\ UNCHANGED <<osEnv, cfg, l, locals, processes, ret, phaseResult, exitCode>>
    /\ UNCHANGED <<diskVars, nonPhaseVars>>

\* line 80: l := ctx.Layer(layerName, BuildLayer, CacheLayer, LaunchLayer), and
\* line 125, the first statement of installLegacyWorker
BuildLayer ==
    /\ InBuildFn("B80")
    /\ l' = Layer(TRUE, TRUE, TRUE)
    /\ events' = Log([op |-> "Logf"])
    /\ pc' = "I131"
    /\ UNCHANGED <<osEnv, cfg, locals, processes, ret, phaseResult, exitCode>>
    /\ UNCHANGED <<diskVars, nonPhaseVars>>

\* installLegacyWorker, lines 131-138: the cache check, its error, a hit.
\* The variant below takes an error of the cache check for a miss.
InstallCheckCacheIgnoringError ==
    /\ InBuildFn("I131")
    /\ LET c == CheckCache(l.Metadata, <<EnvProduction>>,
                           <<ConverterPJS, ConverterWJS>>, bpFiles)
       IN  IF c.err # NoErr
           THEN /\ pc' = "I144"
                /\ locals' = [locals EXCEPT !.installCmd = "install"]
                /\ UNCHANGED <<l, events>>
           ELSE /\ l' = [l EXCEPT !.Metadata = c.sig]
                /\ IF c.hit
                   THEN /\ events' = Log([op |-> "CacheHit"])
                        /\ locals' = [locals EXCEPT !.ierr = NoErr]
                        /\ pc' = "B82"
                   ELSE pc' = "I139" /\ UNCHANGED <<events, locals>>
    /\ UNCHANGED <<osEnv, cfg, processes, ret, phaseResult, exitCode>>
    /\ UNCHANGED <<diskVars, nonPhaseVars>>

\* An install that reports a hit and installs all the same.
InstallCheckCacheHitReinstalls ==
    /\ InBuildFn("I131")
    /\ LET c == CheckCache(l.Metadata, <<EnvProduction>>,
                           <<ConverterPJS, ConverterWJS>>, bpFiles)
       IN  IF c.err # NoErr
           THEN /\ locals' = [locals EXCEPT !.ierr = Wrap("checking cache", c.err)]
                /\ pc' = "B82"
                /\ UNCHANGED <<l, events>>
           ELSE /\ l' = [l EXCEPT !.Metadata = c.sig]
                /\ pc' = "I139"
                /\ IF c.hit
                   THEN events' = Log([op |-> "CacheHit"])
                   ELSE UNCHANGED events
                /\ UNCHANGED locals
    /\ UNCHANGED <<osEnv, cfg, processes, ret, phaseResult, exitCode>>
    /\ UNCHANGED <<diskVars, nonPhaseVars>>

InstallCheckCache ==
    /\ InBuildFn("I131")
    /\ LET c == CheckCache(l.Metadata, <<EnvProduction>>,
                           <<ConverterPJS, ConverterWJS>>, bpFiles)
       IN  IF c.err # NoErr
           THEN /\ locals' = [locals EXCEPT !.ierr = Wrap("checking cache", c.err)]
                /\ pc' = "B82"
                /\ UNCHANGED <<l, events>>
           ELSE /\ l' = [l EXCEPT !.Metadata = c.sig]
                /\ IF c.hit
                   THEN /\ events' = Log([op |-> "CacheHit"])
                        /\ locals' = [locals EXCEPT !.ierr = NoErr]
                        /\ pc' = "B82"
                   ELSE pc' = "I139" /\ UNCHANGED <<events, locals>>
    /\ UNCHANGED <<osEnv, cfg, processes, ret, phaseResult, exitCode>>
    /\ UNCHANGED <<diskVars, nonPhaseVars>>

\* lines 139-142: nodejs.NPMInstallCommand(ctx) gives "install" or "ci", or fails.
InstallNPMInstallCommand ==
    /\ InBuildFn("I139")
    /\ \/ /\ \E c \in {"install", "ci"} : locals' = [locals EXCEPT !.installCmd = c]
          /\ pc' = "I144"
       \/ /\ locals' = [locals EXCEPT !.ierr = Errorf("npm version")]
          /\ pc' = "B82"
    /\ UNCHANGED <<osEnv, cfg, l, processes, events, ret, phaseResult, exitCode>>
    /\ UNCHANGED <<diskVars, nonPhaseVars>>

\* An install that reports the miss and leaves the layer as it found it.
InstallClearLayerSkipped ==
    /\ InBuildFn("I144")
    /\ events' = Log([op |-> "CacheMiss"])
    /\ pc' = "I147"
    /\ UNCHANGED <<osEnv, cfg, l, locals, processes, ret, phaseResult, exitCode>>
    /\ UNCHANGED <<diskVars, nonPhaseVars>>

\* lines 144-145: ctx.CacheMiss(layerName); ctx.ClearLayer(l)
InstallClearLayer ==
    /\ InBuildFn("I144")
    /\ events' = Append(Log([op |-> "CacheMiss"]), [op |-> "ClearLayer"])
    /\ layerDir' = {}
    /\ pc' = "I147"
    /\ UNCHANGED <<osEnv, cfg, l, locals, processes, ret, phaseResult, exitCode>>
    /\ UNCHANGED <<appFiles, packageJSON, bpFiles, layerMeta, layerEnvFiles, nonPhaseVars>>

\* line 147: cp -t l.Path pjs wjs
InstallCopy ==
    /\ InBuildFn("I147")
    /\ \E code \in {0, 1} :
          /\ events' = Exec(<<"cp", "-t", l.Path, ConverterPJS, ConverterWJS>>, code)
          /\ layerDir' =
                IF code = 0
                THEN {f \in layerDir : f.name \notin {"package.json", "worker.js"}}
                       \cup {[name |-> "package.json", data |-> bpFiles[ConverterPJS].data],
                             [name |-> "worker.js", data |-> bpFiles[ConverterWJS].data]}
                ELSE layerDir
    /\ pc' = "I148"
    /\ UNCHANGED <<osEnv, cfg, l, locals, processes, ret, phaseResult, exitCode>>
    /\ UNCHANGED <<appFiles, packageJSON, bpFiles, layerMeta, layerEnvFiles, nonPhaseVars>>

\* lines 148-149: npm <installCmd> --quiet --production --prefix l.Path; return nil
InstallNPM ==
    /\ InBuildFn("I148")
    /\ \E code \in {0, 1} :
          /\ events' = Exec(<<"npm", locals.installCmd, "--quiet", "--production",
                              "--prefix", l.Path>>, code)
          /\ layerDir' =
                IF code = 0
                THEN {f \in layerDir : f.name # "node_modules"}
                       \cup {[name |-> "node_modules", data |-> locals.installCmd]}
                ELSE layerDir
    /\ locals' = [locals EXCEPT !.ierr = NoErr]
    /\ pc' = "B82"
    /\ UNCHANGED <<osEnv, cfg, l, processes, ret, phaseResult, exitCode>>
    /\ UNCHANGED <<appFiles, packageJSON, bpFiles, layerMeta, layerEnvFiles, nonPhaseVars>>

\* lines 82-84: the error of installLegacyWorker, wrapped
BuildInstallReturn ==
    /\ InBuildFn("B82")
    /\ IF locals.ierr # NoErr
       THEN Return(Wrap("installing worker.js", locals.ierr))
       ELSE pc' = "B90" /\ UNCHANGED ret
    /\ UNCHANGED <<osEnv, cfg, l, locals, processes, events, phaseResult, exitCode>>
    /\ UNCHANGED <<diskVars, nonPhaseVars>>

RecordLaunch(ops) == l' = [l EXCEPT !.LaunchEnvironment = ops]

\* lines 90-92: NODE_PATH gets the user's node_modules when it exists
BuildNodePath ==
    /\ InBuildFn("B90")
    /\ IF FileExists("node_modules")
       THEN RecordLaunch(Prepend(l.LaunchEnvironment, "NODE_PATH", PathListSeparator,
                                 Join(AppRoot, "node_modules")))
       ELSE UNCHANGED l
    /\ pc' = "B93"
    /\ UNCHANGED <<osEnv, cfg, locals, processes, events, ret, phaseResult, exitCode>>
    /\ UNCHANGED <<diskVars, nonPhaseVars>>

\* A build function in which ctx.Exit returns to its caller.
BuildFunctionTargetExitReturns ==
    /\ InBuildFn("B93")
    /\ IF Getenv(osEnv, FunctionTarget) # ""
       THEN /\ RecordLaunch(Default(Default(l.LaunchEnvironment,
                    "X_GOOGLE_FUNCTION_NAME", Getenv(osEnv, FunctionTarget)),
                    "X_GOOGLE_ENTRY_POINT", Getenv(osEnv, FunctionTarget)))
            /\ UNCHANGED events
       ELSE /\ events' = Log([op |-> "Exit", code |-> 1,
                              err |-> InternalErrorf("required env var "
                                          \o FunctionTarget \o " not found")])
            /\ UNCHANGED l
    /\ pc' = "B100"
    /\ UNCHANGED <<osEnv, cfg, locals, processes, ret, phaseResult, exitCode>>
    /\ UNCHANGED <<diskVars, nonPhaseVars>>

\* lines 93-99: the function target, or the forced exit when it is empty
BuildFunctionTarget ==
    /\ InBuildFn("B93")
    /\ IF Getenv(osEnv, FunctionTarget) # ""
       THEN /\ RecordLaunch(Default(Default(l.LaunchEnvironment,
                    "X_GOOGLE_FUNCTION_NAME", Getenv(osEnv, FunctionTarget)),
                    "X_GOOGLE_ENTRY_POINT", Getenv(osEnv, FunctionTarget)))
            /\ pc' = "B100"
            /\ UNCHANGED <<events, exitCode>>
       ELSE /\ Exit(1, InternalErrorf("required env var " \o FunctionTarget \o " not found"))
            /\ UNCHANGED l
    /\ UNCHANGED <<osEnv, cfg, locals, processes, ret, phaseResult>>
    /\ UNCHANGED <<diskVars, nonPhaseVars>>

\* lines 100-107: the signature type, "http" renamed to "HTTP_TRIGGER"
BuildSignatureType ==
    /\ InBuildFn("B100")
    /\ IF LookupEnv(osEnv, FunctionSignatureType).ok
       THEN RecordLaunch(Default(l.LaunchEnvironment, "X_GOOGLE_FUNCTION_TRIGGER_TYPE",
                IF LookupEnv(osEnv, FunctionSignatureType).val = "http"
                THEN "HTTP_TRIGGER"
                ELSE LookupEnv(osEnv, FunctionSignatureType).val))
       ELSE UNCHANGED l
    /\ pc' = "B108"
    /\ UNCHANGED <<osEnv, cfg, locals, processes, events, ret, phaseResult, exitCode>>
    /\ UNCHANGED <<diskVars, nonPhaseVars>>

WorkerPort == "8091"

\* lines 108-114: the remaining defaults
BuildDefaults ==
    /\ InBuildFn("B108")
    /\ RecordLaunch(Default(Default(Default(Default(l.LaunchEnvironment,
            "X_GOOGLE_CODE_LOCATION", AppRoot),
            "X_GOOGLE_NEW_FUNCTION_SIGNATURE", "true"),
            "X_GOOGLE_WORKER_PORT", WorkerPort),
            "WORKER_PORT", WorkerPort))
    /\ pc' = "B118"
    /\ UNCHANGED <<osEnv, cfg, locals, processes, events, ret, phaseResult, exitCode>>
    /\ UNCHANGED <<diskVars, nonPhaseVars>>

\* A buildFn that adds the web process twice.
BuildAddWebProcessTwice ==
    /\ InBuildFn("B118")
    /\ LET web == [type |-> "web", command |-> <<"node", Join(l.Path, "worker.js")>>]
       IN  processes' = Append(Append(processes, web), web)
    /\ Return(NoErr)
    /\ UNCHANGED <<osEnv, cfg, l, locals, events, phaseResult, exitCode>>
    /\ UNCHANGED <<diskVars, nonPhaseVars>>

\* lines 118-120: the web process, return nil
BuildAddWebProcess ==
    /\ InBuildFn("B118")
    /\ processes' = Append(processes, [type |-> "web",
                                        command |-> <<"node", Join(l.Path, "worker.js")>>])
    /\ Return(NoErr)
    /\ UNCHANGED <<osEnv, cfg, l, locals, events, phaseResult, exitCode>>
    /\ UNCHANGED <<diskVars, nonPhaseVars>>

(***************************************************************************)
(* From the function's return to the exit code.                             *)
(***************************************************************************)
\* A runBuildpackPhase that reports a failed build without its error.
runBuildpackPhaseDropsBuildError(phase, r) ==
    IF phase = buildPhase
    THEN IF r.kind # "nil"
         THEN [passed |-> FALSE, err |-> NoErr]
         ELSE [passed |-> TRUE, err |-> NoErr]
    ELSE IF r.kind # "nil"
         THEN [passed |-> FALSE, err |-> Errorf("detect error: " \o r.msg)]
         ELSE IF ~r.pass THEN [passed |-> FALSE, err |-> NoErr]
         ELSE [passed |-> TRUE, err |-> NoErr]

\* runBuildpackPhase, lines 348-365: (phasePassed, err) from what the function
\* returned.
runBuildpackPhase(phase, r) ==
    IF phase = buildPhase
    THEN IF r.kind # "nil"
         THEN [passed |-> FALSE, err |-> Errorf("build error: " \o r.msg)]
         ELSE [passed |-> TRUE, err |-> NoErr]
    ELSE IF r.kind # "nil"
         THEN [passed |-> FALSE, err |-> Errorf("detect error: " \o r.msg)]
         ELSE IF ~r.pass THEN [passed |-> FALSE, err |-> NoErr]
         ELSE [passed |-> TRUE, err |-> NoErr]

\* A helper main that exits 0 whenever the phase returned no error.
runBuildpackPhaseMainNoOptOut(phase, res) ==
    IF res.err # NoErr THEN 1 ELSE 0

\* runBuildpackPhaseMain, lines 288-303: log.Fatalf exits with status 1, a
\* detect that did not pass exits with 100, everything else with 0.
runBuildpackPhaseMain(phase, res) ==
    IF res.err # NoErr THEN 1
    ELSE IF phase = detectPhase /\ ~res.passed THEN 100
    ELSE 0

HarnessPhaseReturn ==
    /\ pc = "returned"
    /\ cfg.runner = "harness"
    /\ phaseResult' = runBuildpackPhase(cfg.buildpackPhase, ret)
    /\ pc' = "main"
    /\ UNCHANGED <<osEnv, cfg, l, locals, processes, events, ret, exitCode>>
    /\ UNCHANGED <<diskVars, nonPhaseVars>>

HarnessMain ==
    /\ pc = "main"
    /\ exitCode' = runBuildpackPhaseMain(cfg.buildpackPhase, phaseResult)
    /\ pc' = "exited"
    /\ UNCHANGED <<osEnv, cfg, l, locals, processes, events, ret, phaseResult>>
    /\ UNCHANGED <<diskVars, nonPhaseVars>>

\* The driver's exit code (specification, sections 4.1 and 6): 0 for a detect
\* that passes and a build that succeeds, 100 for a detect that opts out, 1
\* for a user or an internal error.
DriverExitCode(phase, r) ==
    IF r.kind # "nil" THEN 1
    ELSE IF phase = detectPhase /\ ~r.pass THEN 100
    ELSE 0

\* The driver after the function returned: on a successful build it persists
\* every layer's metadata and environment files (specification, section 4.1).
DriverFinish ==
    /\ pc = "returned"
    /\ cfg.runner = "driver"
    /\ exitCode' = DriverExitCode(cfg.buildpackPhase, ret)
    /\ IF cfg.buildpackPhase = buildPhase /\ ret.kind = "nil" /\ l.acquired
       THEN /\ layerMeta' = l.Metadata
            /\ layerEnvFiles' = l.LaunchEnvironment
       ELSE UNCHANGED <<layerMeta, layerEnvFiles>>
    /\ pc' = "exited"
    /\ UNCHANGED <<osEnv, cfg, l, locals, processes, events, ret, phaseResult>>
    /\ UNCHANGED <<appFiles, packageJSON, bpFiles, layerDir, nonPhaseVars>>

\* The next build of the same application after a successful one: a new
\* process, the layer's directory and metadata as the last build left them,
\* and possibly another version of the buildpack's converter files.
ConverterFiles ==
    { [p \in {ConverterPJS, ConverterWJS} |->
          IF p = ConverterPJS THEN a ELSE b] :
        a \in {NoFile, File("pjs-1"), File("pjs-2")}, b \in {NoFile, File("wjs-1")} }

NoLocals == [fnFile |-> "", installCmd |-> "", ierr |-> NoErr]

NextBuild ==
    /\ pc = "exited"
    /\ cfg.runner = "driver"
    /\ cfg.buildpackPhase = buildPhase
    /\ cfg.fn = "legacy"
    /\ exitCode = 0
    /\ bpFiles' \in ConverterFiles
    /\ pc' = "setup"
    /\ l' = NoLayer
    /\ locals' = NoLocals
    /\ processes' = <<>>
    /\ events' = <<>>
    /\ ret' = Running
    /\ phaseResult' = [passed |-> FALSE, err |-> NoErr]
    /\ exitCode' = NotExited
    /\ UNCHANGED <<osEnv, cfg, appFiles, packageJSON, layerMeta, layerDir, layerEnvFiles>>
    /\ UNCHANGED nonPhaseVars

FunctionEnvs ==
    { [EmptyEnv EXCEPT ![FunctionTarget] = t, ![FunctionSource] = s,
                       ![FunctionSignatureType] = g] :
        t \in {Unset, SetTo(""), SetTo("testFunction")},
        s \in {Unset, SetTo("src")},
        g \in {Unset, SetTo("http"), SetTo("event")} }

\* The application trees: which of index.js, function.js, node_modules and
\* package.json exist, what package.json's main names and whether that file
\* exists.
AppTrees ==
    { [files |-> f, pkg |-> p] :
        f \in SUBSET {"index.js", "function.js", "node_modules", "package.json",
                      "lib/main.js"},
        p \in { [err |-> FALSE, Main |-> ""], [err |-> TRUE, Main |-> ""],
                [err |-> FALSE, Main |-> "lib/main.js"] } }

PlainTree == [files |-> {"index.js"}, pkg |-> [err |-> FALSE, Main |-> ""]]

Configs ==
    [buildpackPhase : {detectPhase, buildPhase}, fn : {"legacy", "stub"},
     runner : {"harness", "driver"}]

\* No build has persisted the layer yet.
None == [none |-> TRUE]

CacheIdle ==
    /\ ck = [tokens |-> <<>>, paths |-> <<>>]
    /\ cres = [err |-> NoErr, hit |-> FALSE, sig |-> NoSig]
    /\ stored = None
    /\ cpc = "idle"

\* The variables composed in the model of environment composition.
ComposedNames == {"X", "PATH"}

ComposeIdle ==
    /\ ambient = [n \in ComposedNames |-> Unset]
    /\ recorded = <<>>
    /\ cenv = [n \in ComposedNames |-> Unset]
    /\ before = [n \in ComposedNames |-> Unset]
    /\ applied = 0
    /\ launching = FALSE

\* A Go map with no entry (a nil map reads the same).
EmptyMap == <<>>
NoResult == [kind |-> "none", Stdout |-> "", Stderr |-> "", ExitCode |-> 0]

MockIdle ==
    /\ opts = <<>>
    /\ mockProcessMap = EmptyMap
    /\ execCmd = "unset"
    /\ command = <<>>
    /\ result = NoResult
    /\ spawned = {}

NoOutcome == [ran |-> FALSE]

SnapshotIdle ==
    /\ ctxEnv = EmptyEnv
    /\ ctxTree = PlainTree
    /\ runEnv = <<EmptyEnv, EmptyEnv>>
    /\ outcome = <<NoOutcome, NoOutcome>>
    /\ spc = "idle"

OutputIdle ==
    /\ output = <<>>
    /\ executed = {}
    /\ asked = ""
    /\ answer = FALSE

ProcIdle ==
    /\ cfg = [buildpackPhase |-> detectPhase, fn |-> "stub", runner |-> "driver"]
    /\ l = NoLayer
    /\ locals = NoLocals
    /\ processes = <<>>
    /\ events = <<>>
    /\ pc = "idle"
    /\ ret = Running
    /\ phaseResult = [passed |-> FALSE, err |-> NoErr]
    /\ exitCode = NotExited

PhaseIdle ==
    /\ ProcIdle
    /\ appFiles = {}
    /\ packageJSON = [err |-> FALSE, Main |-> ""]
    /\ bpFiles = [p \in {ConverterPJS, ConverterWJS} |-> NoFile]
    /\ layerMeta = NoSig
    /\ layerDir = {}
    /\ layerEnvFiles = <<>>

Init ==
    /\ cfg \in Configs
    /\ osEnv \in FunctionEnvs
    /\ \E t \in AppTrees :
          /\ (cfg.fn = "stub" \/ cfg.buildpackPhase = detectPhase) => t = PlainTree
          /\ (t.pkg # [err |-> FALSE, Main |-> ""]) => "package.json" \in t.files
          /\ ("lib/main.js" \in t.files) => t.pkg.Main = "lib/main.js"
          /\ appFiles = t.files
          /\ packageJSON = t.pkg
    /\ bpFiles \in ConverterFiles
    /\ (cfg.fn = "stub" \/ cfg.buildpackPhase = detectPhase)
          => bpFiles = [p \in {ConverterPJS, ConverterWJS} |-> NoFile]
    /\ layerMeta = NoSig
    /\ layerDir = {}
    /\ layerEnvFiles = <<>>
    /\ l = NoLayer
    /\ locals = NoLocals
    /\ processes = <<>>
    /\ events = <<>>
    /\ pc = "setup"
    /\ ret = Running
    /\ phaseResult = [passed |-> FALSE, err |-> NoErr]
    /\ exitCode = NotExited
    /\ VersionIdle
    /\ CacheIdle
    /\ ComposeIdle
    /\ MockIdle
    /\ SnapshotIdle
    /\ OutputIdle

Next ==
    \/ HarnessSetupFail \/ HarnessSetup \/ DriverStart
    \/ detectFn \/ StubDetectFn \/ StubBuildFnReturn \/ StubBuildFnExit
    \/ BuildCheckSource \/ BuildSelectFnFile \/ BuildCheckFnFile \/ BuildSyntaxCheck
    \/ BuildLayer \/ InstallCheckCache \/ InstallNPMInstallCommand \/ InstallClearLayer
    \/ InstallCopy \/ InstallNPM \/ BuildInstallReturn
    \/ BuildNodePath \/ BuildFunctionTarget \/ BuildSignatureType \/ BuildDefaults
    \/ BuildAddWebProcess
    \/ HarnessPhaseReturn \/ HarnessMain \/ DriverFinish \/ NextBuild

(***************************************************************************)
(* The cache engine on its own: one layer, build after build.  Each build   *)
(* calls CheckCache once with an ordered token list and an ordered file     *)
(* list; a build that succeeds persists the layer's metadata, one that      *)
(* fails leaves the metadata of the last successful build.                  *)
(***************************************************************************)
\* The token lists and file lists a build may hand to CheckCache.
TokenLists ==
    { <<"production">>, <<"development">>, <<"production", "development">>,
      <<"development", "production">>, <<"production", "production">> }
FileLists ==
    { <<ConverterPJS, ConverterWJS>>, <<ConverterWJS, ConverterPJS>>,
      <<ConverterPJS>>, <<ConverterWJS>> }

\* The files on disk: contents one byte apart, the first file possibly missing.
CacheFiles ==
    { [p \in {ConverterPJS, ConverterWJS} |-> IF p = ConverterPJS THEN a ELSE b] :
        a \in {NoFile, File("ab"), File("ac")}, b \in {File("ab"), File("ac")} }

CacheInit ==
    /\ osEnv = EmptyEnv
    /\ VersionIdle
    /\ ProcIdle
    /\ ComposeIdle
    /\ MockIdle
    /\ SnapshotIdle
    /\ OutputIdle
    /\ appFiles = {}
    /\ packageJSON = [err |-> FALSE, Main |-> ""]
    /\ bpFiles \in CacheFiles
    /\ layerMeta = NoSig
    /\ layerDir = {}
    /\ layerEnvFiles = <<>>
    /\ ck = [tokens |-> <<>>, paths |-> <<>>]
    /\ cres = [err |-> NoErr, hit |-> FALSE, sig |-> NoSig]
    /\ stored = None
    /\ cpc = "start"

\* The build function calls CheckCache(layer, tokens, files).
CacheCheck ==
    /\ cpc = "start"
    /\ \E t \in TokenLists, f \in FileLists :
          /\ ck' = [tokens |-> t, paths |-> f]
          /\ cres' = CheckCache(layerMeta, t, f, bpFiles)
    /\ cpc' = "checked"
    /\ UNCHANGED <<nonCacheVars, diskVars, stored>>

\* The build succeeds: the driver persists the layer's metadata, and the next
\* build starts on whatever files are on disk then.
CacheBuildSucceeds ==
    /\ cpc = "checked"
    /\ cres.err = NoErr
    /\ layerMeta' = cres.sig
    /\ stored' = [tokens |-> ck.tokens, contents |-> Contents(bpFiles, ck.paths)]
    /\ bpFiles' \in CacheFiles
    /\ cpc' = "start"
    /\ UNCHANGED <<nonCacheVars, ck, cres>>
    /\ UNCHANGED <<appFiles, packageJSON, layerDir, layerEnvFiles>>

\* The build fails (the check's error, or anything later): nothing is persisted.
CacheBuildFails ==
    /\ cpc = "checked"
    /\ bpFiles' \in CacheFiles
    /\ cpc' = "start"
    /\ UNCHANGED <<nonCacheVars, ck, cres, stored>>
    /\ UNCHANGED <<appFiles, packageJSON, layerMeta, layerDir, layerEnvFiles>>

CacheNext == CacheCheck \/ CacheBuildSucceeds \/ CacheBuildFails

(***************************************************************************)
(* Environment composition (specification, section 4.3): the operations a   *)
(* layer recorded are applied, in the order recorded, to the environment of *)
(* the process that consumes the layer.                                     *)
(***************************************************************************)
MaxOps == 2

ComposedValues == {"a", "/new"}

\* The operations a build function may record on one variable.
RecordableOps ==
    { Op(k, n, IF k \in {"prepend", "append"} THEN PathListSeparator ELSE "", v) :
        k \in {"default", "override", "prepend", "append"},
        n \in ComposedNames, v \in ComposedValues }

AmbientEnvs == [ComposedNames -> {Unset, SetTo(""), SetTo("c")}]

\* A composition whose Default overwrites a value that is already set.
ApplyOpDefaultOverwrites(e, o) ==
    CASE o.kind \in {"default", "override"} -> [e EXCEPT ![o.name] = SetTo(o.value)]
      [] o.kind = "prepend" ->
            IF ~e[o.name].ok \/ e[o.name].val = ""
            THEN [e EXCEPT ![o.name] = SetTo(o.value)]
            ELSE [e EXCEPT ![o.name] = SetTo(o.value \o o.sep \o e[o.name].val)]
      [] o.kind = "append" ->
            IF ~e[o.name].ok \/ e[o.name].val = ""
            THEN [e EXCEPT ![o.name] = SetTo(o.value)]
            ELSE [e EXCEPT ![o.name] = SetTo(e[o.name].val \o o.sep \o o.value)]

\* A composition that joins with the separator whatever the existing value is.
ApplyOpAlwaysSeparator(e, o) ==
    CASE o.kind = "default" ->
            IF e[o.name].ok THEN e ELSE [e EXCEPT ![o.name] = SetTo(o.value)]
      [] o.kind = "override" -> [e EXCEPT ![o.name] = SetTo(o.value)]
      [] o.kind = "prepend" ->
            [e EXCEPT ![o.name] = SetTo(o.value \o o.sep \o Getenv(e, o.name))]
      [] o.kind = "append" ->
            [e EXCEPT ![o.name] = SetTo(Getenv(e, o.name) \o o.sep \o o.value)]

\* One operation applied to an environment: Default sets a variable that is
\* not set; Override replaces; Prepend and Append act like Override on a
\* variable that is unset or empty and else join the new and the existing
\* value with the separator.
ApplyOp(e, o) ==
    CASE o.kind = "default" ->
            IF e[o.name].ok THEN e ELSE [e EXCEPT ![o.name] = SetTo(o.value)]
      [] o.kind = "override" -> [e EXCEPT ![o.name] = SetTo(o.value)]
      [] o.kind = "prepend" ->
            IF ~e[o.name].ok \/ e[o.name].val = ""
            THEN [e EXCEPT ![o.name] = SetTo(o.value)]
            ELSE [e EXCEPT ![o.name] = SetTo(o.value \o o.sep \o e[o.name].val)]
      [] o.kind = "append" ->
            IF ~e[o.name].ok \/ e[o.name].val = ""
            THEN [e EXCEPT ![o.name] = SetTo(o.value)]
            ELSE [e EXCEPT ![o.name] = SetTo(e[o.name].val \o o.sep \o o.value)]

ComposeInit ==
    /\ osEnv = EmptyEnv
    /\ VersionIdle
    /\ PhaseIdle
    /\ CacheIdle
    /\ MockIdle
    /\ SnapshotIdle
    /\ OutputIdle
    /\ ambient \in AmbientEnvs
    /\ recorded = <<>>
    /\ cenv = ambient
    /\ before = ambient
    /\ applied = 0
    /\ launching = FALSE

\* The build function records one more operation on the layer
\* (l.LaunchEnvironment.Default / Override / Prepend / Append).
RecordOp ==
    /\ ~launching
    /\ Len(recorded) < MaxOps
    /\ \E o \in RecordableOps : recorded' = Append(recorded, o)
    /\ UNCHANGED <<ambient, cenv, before, applied, launching>>
    /\ UNCHANGED nonComposeVars

\* The build is over; the launching process starts from its own environment.
StartLaunch ==
    /\ ~launching
    /\ launching' = TRUE
    /\ UNCHANGED <<ambient, recorded, cenv, before, applied>>
    /\ UNCHANGED nonComposeVars

\* The launching process applies the next recorded operation.
ApplyNext ==
    /\ launching
    /\ applied < Len(recorded)
    /\ before' = cenv
    /\ cenv' = ApplyOp(cenv, recorded[applied + 1])
    /\ applied' = applied + 1
    /\ UNCHANGED <<ambient, recorded, launching>>
    /\ UNCHANGED nonComposeVars

ComposeNext == RecordOp \/ StartLaunch \/ ApplyNext

(***************************************************************************)
(* Exec mocks of the harness.  RunBuild applies its options in order; each  *)
(* WithExecMock stores a MockProcess in cfg.mockProcessMap under its        *)
(* command regex.  runBuildpackPhase installs the mock exec when the map    *)
(* has an entry, and the function under test then issues commands through   *)
(* the Context's exec.  A command line and a command regex are written as   *)
(* their sequence of words; the regexes are literal texts, which match      *)
(* wherever the text occurs in the command line.                            *)
(***************************************************************************)
MaxMocks == 2

CommandLines ==
    { <<"npm", "install">>,
      <<"npm", "install", "--production">>,
      <<"node", "--check", "index.js">> }

CommandRegexes == { <<"npm">>, <<"npm", "install">>, <<"install">>, <<"yarn">> }

\* An ExecMockOptions value: the field of the MockProcess it sets, and the
\* text or the code it sets it to.
MockStdout(msg) == [field |-> "Stdout", msg |-> msg, code |-> 0]
MockStderr(msg) == [field |-> "Stderr", msg |-> msg, code |-> 0]
MockExitCode(code) == [field |-> "ExitCode", msg |-> "", code |-> code]

\* The ExecMockOptions lists given to WithExecMock.
ExecMockOptionLists ==
    { <<>>,
      <<MockStdout("installed")>>,
      <<MockStderr("ENOENT"), MockExitCode(1)>>,
      <<MockExitCode(1), MockExitCode(2)>> }

RECURSIVE ApplyExecMockOptions(_, _)
ApplyExecMockOptions(mp, mopts) ==
    IF mopts = <<>> THEN mp
    ELSE LET o == Head(mopts)
             set == IF o.field = "ExitCode"
                    THEN [mp EXCEPT !.ExitCode = o.code]
                    ELSE [mp EXCEPT ![o.field] = o.msg]
         IN  ApplyExecMockOptions(set, Tail(mopts))

\* A pattern kept under its first registration: a later one is dropped.
WithExecMockKeepsFirst(m, commandRegex, mopts) ==
    LET mp == ApplyExecMockOptions([Stdout |-> "", Stderr |-> "", ExitCode |-> 0], mopts)
    IN  [r \in DOMAIN m \cup {commandRegex} |->
            IF r \in DOMAIN m THEN m[r] ELSE mp]

\* WithExecMock applied to a config whose map is m: the map it leaves.
WithExecMock(m, commandRegex, mopts) ==
    LET mp == ApplyExecMockOptions([Stdout |-> "", Stderr |-> "", ExitCode |-> 0], mopts)
    IN  [r \in DOMAIN m \cup {commandRegex} |->
            IF r = commandRegex THEN mp ELSE m[r]]

\* regexp match of a literal pattern: the text occurs in the command line.
MatchString(commandRegex, cmd) ==
    \E i \in 0..(Len(cmd) - Len(commandRegex)) :
        SubSeq(cmd, i + 1, i + Len(commandRegex)) = commandRegex

\* The mock exec (internal/buildpacktestenv NewMockExecCmd and the
\* mockprocess binary), from the specification, section 4.4: the results it
\* can give for a command.  It is handed the Go map alone, which has no
\* order of registration, so any entry whose pattern matches can be the one
\* it meets first; with none, the command is a configuration error.
MockExecResults(m, cmd) ==
    LET matching == { r \in DOMAIN m : MatchString(r, cmd) }
    IN  IF matching = {}
        THEN { [kind |-> "configError", Stdout |-> "", Stderr |-> "", ExitCode |-> 1] }
        ELSE { [kind |-> "mock", Stdout |-> m[r].Stdout, Stderr |-> m[r].Stderr,
                ExitCode |-> m[r].ExitCode] : r \in matching }

\* The real launcher: the command runs as a process and ends with some code.
RealExecResults ==
    { [kind |-> "real", Stdout |-> "", Stderr |-> "", ExitCode |-> c] : c \in {0, 1} }

MockInit ==
    /\ osEnv = EmptyEnv
    /\ VersionIdle
    /\ PhaseIdle
    /\ CacheIdle
    /\ ComposeIdle
    /\ MockIdle
    /\ SnapshotIdle
    /\ OutputIdle

\* RunBuild: the next option of its list is a WithExecMock, and is applied.
RunBuildOption ==
    /\ execCmd = "unset"
    /\ Len(opts) < MaxMocks
    /\ \E commandRegex \in CommandRegexes, mopts \in ExecMockOptionLists :
        /\ opts' = Append(opts, [commandRegex |-> commandRegex, mopts |-> mopts])
        /\ mockProcessMap' = WithExecMock(mockProcessMap, commandRegex, mopts)
    /\ UNCHANGED <<execCmd, command, result, spawned>>
    /\ UNCHANGED nonMockVars

\* runBuildpackPhase: the mock exec replaces the launcher when the map has
\* an entry; the phase fails when the mockprocess binary is not located.
PhaseSelectExec ==
    /\ execCmd = "unset"
    /\ IF DOMAIN mockProcessMap # {}
       THEN execCmd' \in {"mock", "failed"}
       ELSE execCmd' = "real"
    /\ UNCHANGED <<opts, mockProcessMap, command, result, spawned>>
    /\ UNCHANGED nonMockVars

\* ctx.Exec of a command line under the mock exec.
CtxExecMocked ==
    /\ execCmd = "mock"
    /\ \E cmd \in CommandLines :
        /\ command' = cmd
        /\ result' \in MockExecResults(mockProcessMap, cmd)
    /\ UNCHANGED <<opts, mockProcessMap, execCmd, spawned>>
    /\ UNCHANGED nonMockVars

\* ctx.Exec of a command line under the real launcher.
CtxExecReal ==
    /\ execCmd = "real"
    /\ \E cmd \in CommandLines :
        /\ command' = cmd
        /\ result' \in RealExecResults
        /\ spawned' = spawned \cup {cmd}
    /\ UNCHANGED <<opts, mockProcessMap, execCmd>>
    /\ UNCHANGED nonMockVars

MockNext == RunBuildOption \/ PhaseSelectExec \/ CtxExecMocked \/ CtxExecReal

(***************************************************************************)
(* Two runs of the legacy worker's functions on one Context.  The Context   *)
(* is constructed from the process environment of that moment; the process  *)
(* environment can change afterwards (os.Setenv, os.Unsetenv), one way for  *)
(* one run and another way for the other; then each run calls detectFn and  *)
(* buildFn.  Both functions read the process environment themselves         *)
(* (os.LookupEnv, os.Getenv), not the Context.                              *)
(***************************************************************************)
\* buildFn as a function of the process environment it runs in and of the
\* application tree, for a worker install that succeeds (the install reads
\* neither): the error returned, whether ctx.Exit ended it, the launch
\* environment operations recorded and the web processes added.
buildFnOutcome(e, tree) ==
    LET fnFile == IF "package.json" \in tree.files /\ tree.pkg.Main # ""
                  THEN tree.pkg.Main
                  ELSE IF "index.js" \in tree.files THEN "index.js" ELSE "function.js"
        failed(err) == [err |-> err, exited |-> FALSE, ops |-> <<>>, web |-> 0]
        nodePath == IF "node_modules" \in tree.files
                    THEN Prepend(<<>>, "NODE_PATH", PathListSeparator,
                                 Join(AppRoot, "node_modules"))
                    ELSE <<>>
        target == Getenv(e, FunctionTarget)
        named == Default(Default(nodePath, "X_GOOGLE_FUNCTION_NAME", target),
                         "X_GOOGLE_ENTRY_POINT", target)
        signature == LookupEnv(e, FunctionSignatureType)
        typed == IF signature.ok
                 THEN Default(named, "X_GOOGLE_FUNCTION_TRIGGER_TYPE",
                              IF signature.val = "http" THEN "HTTP_TRIGGER"
                              ELSE signature.val)
                 ELSE named
        all == Default(Default(Default(Default(typed,
                   "X_GOOGLE_CODE_LOCATION", AppRoot),
                   "X_GOOGLE_NEW_FUNCTION_SIGNATURE", "true"),
                   "X_GOOGLE_WORKER_PORT", WorkerPort),
                   "WORKER_PORT", WorkerPort)
    IN  IF LookupEnv(e, FunctionSource).ok
        THEN failed(UserErrorf(FunctionSource
                       \o " is not currently supported for Node.js buildpacks"))
        ELSE IF "package.json" \in tree.files /\ tree.pkg.err
        THEN failed(Errorf("reading package.json"))
        ELSE IF fnFile \notin tree.files
        THEN failed(UserErrorf(fnFile \o " does not exist"))
        ELSE IF target = ""
        THEN [err |-> InternalErrorf("required env var " \o FunctionTarget \o " not found"),
              exited |-> TRUE, ops |-> nodePath, web |-> 0]
        ELSE [err |-> NoErr, exited |-> FALSE, ops |-> all, web |-> 1]

RunOutcome(e, tree) ==
    [ran |-> TRUE, detect |-> detectFnResult(e), build |-> buildFnOutcome(e, tree)]

SnapshotTrees ==
    { PlainTree,
      [files |-> {"index.js", "node_modules"}, pkg |-> [err |-> FALSE, Main |-> ""]],
      [files |-> {}, pkg |-> [err |-> FALSE, Main |-> ""]] }

\* The values os.Setenv and os.Unsetenv can leave a variable with.
FunctionEnvValues(k) ==
    IF k = FunctionTarget THEN {Unset, SetTo(""), SetTo("testFunction")}
    ELSE IF k = FunctionSource THEN {Unset, SetTo("src")}
    ELSE {Unset, SetTo("http"), SetTo("event")}

\* gcp.NewContext(): the snapshot is the process environment of that moment.
SnapshotInit ==
    /\ osEnv = EmptyEnv
    /\ VersionIdle
    /\ PhaseIdle
    /\ CacheIdle
    /\ ComposeIdle
    /\ MockIdle
    /\ OutputIdle
    /\ ctxEnv \in FunctionEnvs
    /\ ctxTree \in SnapshotTrees
    /\ runEnv = <<ctxEnv, ctxEnv>>
    /\ outcome = <<NoOutcome, NoOutcome>>
    /\ spc = "constructed"

\* The process environment of one run changes after the Context was made.
AmbientChange ==
    /\ spc = "constructed"
    /\ \E i \in {1, 2} :
       \E k \in {FunctionTarget, FunctionSource, FunctionSignatureType} :
       \E v \in FunctionEnvValues(k) :
          runEnv' = [runEnv EXCEPT ![i] = [runEnv[i] EXCEPT ![k] = v]]
    /\ UNCHANGED <<ctxEnv, ctxTree, outcome, spc>>
    /\ UNCHANGED nonSnapshotVars

\* Each run calls detectFn(ctx) and buildFn(ctx).
RunFunctions ==
    /\ spc = "constructed"
    /\ outcome' = <<RunOutcome(runEnv[1], ctxTree), RunOutcome(runEnv[2], ctxTree)>>
    /\ spc' = "ran"
    /\ UNCHANGED <<ctxEnv, ctxTree, runEnv>>
    /\ UNCHANGED nonSnapshotVars

SnapshotNext == AmbientChange \/ RunFunctions

(***************************************************************************)
(* The captured output of a phase, and Result.CommandExecuted on it.  The   *)
(* output is written word by word: ctx.Exec logs a command it runs as a     *)
(* block "Running <command> <its output> Done" (debug mode is on under the  *)
(* harness), and anything else the phase prints is other log text, which    *)
(* can name a command.  A command is written as one word.                   *)
(***************************************************************************)
MaxOutput == 7

ExecCommands == {"cp", "npm", "node"}

\* What a command, or a log line, can print: a word of its own or the name
\* of a command.
PrintedWords == {"ok"} \cup ExecCommands

\* CommandExecuted(command): the regular expression
\* (?s)Running.*<command>.*Done finds a match in the output.
CommandExecuted(out, cmd) ==
    \E i, j, k \in 1..Len(out) :
        /\ i < j /\ j < k
        /\ out[i] = "Running"
        /\ out[j] = cmd
        /\ out[k] = "Done"

OutputInit ==
    /\ osEnv = EmptyEnv
    /\ VersionIdle
    /\ PhaseIdle
    /\ CacheIdle
    /\ ComposeIdle
    /\ MockIdle
    /\ SnapshotIdle
    /\ OutputIdle

\* ctx.Exec runs a command: its block is logged.
ExecLogged ==
    /\ asked = ""
    /\ \E cmd \in ExecCommands, printed \in {<<>>} \cup {<<w>> : w \in PrintedWords} :
        /\ Len(output) + 3 + Len(printed) <= MaxOutput
        /\ output' = output \o <<"Running", cmd>> \o printed \o <<"Done">>
        /\ executed' = executed \cup {cmd}
    /\ UNCHANGED <<asked, answer>>
    /\ UNCHANGED nonOutputVars

\* The phase logs a word that is not part of a block.
LogText ==
    /\ asked = ""
    /\ Len(output) < MaxOutput
    /\ \E w \in PrintedWords : output' = Append(output, w)
    /\ UNCHANGED <<executed, asked, answer>>
    /\ UNCHANGED nonOutputVars

\* The phase is over and the test asks result.CommandExecuted(cmd).
AskCommandExecuted ==
    /\ \E cmd \in ExecCommands :
        /\ asked' = cmd
        /\ answer' = CommandExecuted(output, cmd)
    /\ UNCHANGED <<output, executed>>
    /\ UNCHANGED nonOutputVars

OutputNext == ExecLogged \/ LogText \/ AskCommandExecuted

vars == <<osEnv, versionVars, procVars, diskVars, cacheVars, composeVars, mockVars,
          snapshotVars, outputVars>>

Spec == Init /\ [][Next]_vars

VersionSpecInit ==
    VersionInit /\ PhaseIdle /\ CacheIdle /\ ComposeIdle /\ MockIdle /\ SnapshotIdle /\ OutputIdle

SpecVersion == VersionSpecInit /\ [][VersionNext]_vars

SpecCache == CacheInit /\ [][CacheNext]_vars

SpecCompose == ComposeInit /\ [][ComposeNext]_vars

SpecMock == MockInit /\ [][MockNext]_vars

SpecSnapshot == SnapshotInit /\ [][SnapshotNext]_vars

SpecOutput == OutputInit /\ [][OutputNext]_vars

(***************************************************************************)
(* C1.  When RequestedNodejsVersion has returned, the result is the value   *)
(* of the highest-precedence non-empty source: GOOGLE_NODEJS_VERSION if it  *)
(* is non-empty, else GOOGLE_RUNTIME_VERSION if it is non-empty, else       *)
(* engines.node of package.json if there is one, else "", and no error is   *)
(* returned; the table cases of the test get the result they want.          *)
(***************************************************************************)
ManifestNode == IF pjs = Nil THEN "" ELSE pjs.Engines.Node

C1_VersionPrecedence ==
    tpc = "done" =>
        /\ ~gotErr
        /\ (Getenv(osEnv, NodejsVersion) # "" => got = Getenv(osEnv, NodejsVersion))
        /\ (Getenv(osEnv, NodejsVersion) = "" /\ Getenv(osEnv, RuntimeVersion) # ""
              => got = Getenv(osEnv, RuntimeVersion))
        /\ (Getenv(osEnv, NodejsVersion) = "" /\ Getenv(osEnv, RuntimeVersion) = ""
              => got = ManifestNode)
        /\ (tc \in TestCases /\ osEnv[NodejsVersion].val \in {"", tc.nodeEnv}
              /\ osEnv[RuntimeVersion].val \in {"", tc.runtimeEnv} => got = tc.want)

\* The generic override wins over a manifest constraint although both are set.
C1_Witness ==
    /\ tpc = "done"
    /\ Getenv(osEnv, NodejsVersion) = ""
    /\ Getenv(osEnv, RuntimeVersion) = "3.3.3"
    /\ ManifestNode = "2.2.2"
    /\ got = "3.3.3"

(***************************************************************************)
(* C2.  A detect function that was run and returned: the process exits with *)
(* 0 exactly when it returned no error and pass = true, with 100 exactly    *)
(* when it returned no error and pass = false, and with a code that is      *)
(* neither 0 nor 100 exactly when it returned an error.                     *)
(***************************************************************************)
DetectReturned ==
    /\ pc = "exited"
    /\ cfg.buildpackPhase = detectPhase
    /\ ret # Running

C2_DetectExitCode ==
    DetectReturned =>
        /\ (exitCode = 0 <=> (ret.kind = "nil" /\ ret.pass))
        /\ (exitCode = 100 <=> (ret.kind = "nil" /\ ~ret.pass))
        /\ (exitCode \notin {0, 100} <=> ret.kind # "nil")

\* The legacy worker's detectFn opted out under the harness: exit code 100.
C2_Witness ==
    /\ DetectReturned
    /\ cfg.runner = "harness"
    /\ cfg.fn = "legacy"
    /\ ret = Returned(NoErr, FALSE)
    /\ exitCode = 100

(***************************************************************************)
(* C3.  A build phase that has ended: the exit code is 0 exactly when the   *)
(* build function returned no error; when it returned a user error or an    *)
(* internal error the exit code is 1 in both cases, and for any returned    *)
(* error it is neither 0 nor 100.                                           *)
(***************************************************************************)
BuildEnded ==
    /\ pc = "exited"
    /\ cfg.buildpackPhase = buildPhase

C3_BuildExitCode ==
    BuildEnded =>
        /\ (exitCode = 0 <=> ret.kind = "nil")
        /\ (ret.kind \in {"user", "internal"} => exitCode = 1)
        /\ (ret.kind \in {"user", "internal", "plain"} => exitCode \notin {0, 100})

\* The legacy worker's buildFn returned its user error for a missing function
\* file under the harness, and the process exited with 1.
C3_Witness ==
    /\ BuildEnded
    /\ cfg.runner = "harness"
    /\ cfg.fn = "legacy"
    /\ ret = Returned(UserErrorf("function.js does not exist"), FALSE)
    /\ exitCode = 1

(***************************************************************************)
(* C6.  In a build whose cache check met a missing converter file: no cache *)
(* hit and no cache miss is reported, the layer is not cleared, neither cp  *)
(* nor npm is run, installLegacyWorker returns the check's error wrapped    *)
(* ("checking cache: ..."), buildFn returns it wrapped again, and the build *)
(* does not exit with 0.                                                    *)
(***************************************************************************)
ConverterFileMissing == \E p \in DOMAIN bpFiles : ~bpFiles[p].ok

CacheChecked ==
    /\ cfg.buildpackPhase = buildPhase
    /\ cfg.fn = "legacy"
    /\ l # NoLayer
    /\ pc # "I131"

EventOps == {events[i].op : i \in 1..Len(events)}
ExecutedCommands == {events[i].cmd[1] : i \in {j \in 1..Len(events) : events[j].op = "Exec"}}

C6_MissingFileIsError ==
    (CacheChecked /\ ConverterFileMissing) =>
        /\ EventOps \cap {"CacheHit", "CacheMiss", "ClearLayer"} = {}
        /\ ExecutedCommands \cap {"cp", "npm"} = {}
        /\ locals.ierr = Wrap("checking cache", Errorf("hashing files"))
        /\ pc \in {"B82", "returned", "main", "exited"}
        /\ pc # "B82" =>
             /\ ret = Returned(Errorf("installing worker.js: checking cache: hashing files"),
                               FALSE)
        /\ pc = "exited" => exitCode = 1

\* A second build, after one that filled the layer, finds a converter file
\* missing: buildFn has returned the wrapped error and the layer is as it was.
C6_Witness ==
    /\ CacheChecked
    /\ ConverterFileMissing
    /\ pc = "returned"
    /\ ret.msg = "installing worker.js: checking cache: hashing files"
    /\ layerDir # {}
    /\ layerMeta # NoSig

(***************************************************************************)
(* C9.  Once a build function has called ctx.Exit(code, err), the phase has *)
(* ended with that exit code at that call: the Exit is the last thing the   *)
(* Context did, no environment operation of a later statement is recorded,  *)
(* no web process is added, and no layer metadata or environment file has   *)
(* been persisted.                                                          *)
(***************************************************************************)
ExitCalled == \E i \in 1..Len(events) : events[i].op = "Exit"

C9_ExitEndsThePhase ==
    (cfg.buildpackPhase = buildPhase /\ ExitCalled) =>
        /\ pc = "exited"
        /\ events[Len(events)].op = "Exit"
        /\ exitCode = events[Len(events)].code
        /\ ret = Running
        /\ processes = <<>>
        /\ l # NoLayer =>
             \A i \in 1..Len(l.LaunchEnvironment) :
                l.LaunchEnvironment[i].name = "NODE_PATH"
        /\ layerMeta = NoSig
        /\ layerEnvFiles = <<>>

\* buildFn of the legacy worker found the function target empty after it had
\* recorded NODE_PATH, and forced exit code 1 under the driver.
C9_Witness ==
    /\ cfg.buildpackPhase = buildPhase
    /\ cfg.fn = "legacy"
    /\ cfg.runner = "driver"
    /\ ExitCalled
    /\ exitCode = 1
    /\ l # NoLayer
    /\ Len(l.LaunchEnvironment) = 1
    /\ layerDir # {}

(***************************************************************************)
(* C4.  A CheckCache that returned without error: it reports a miss when    *)
(* the layer has no metadata of an earlier build; a hit when its tokens and *)
(* file contents equal those of the build that last persisted the layer;    *)
(* and a miss when its token list differs from that build's in exactly one  *)
(* token.                                                                   *)
(***************************************************************************)
CacheAnswered == cpc = "checked" /\ cres.err = NoErr

OneTokenDiffers(s, t) ==
    /\ Len(s) = Len(t)
    /\ Cardinality({i \in 1..Len(s) : s[i] # t[i]}) = 1

C4_CacheHitMiss ==
    CacheAnswered =>
        /\ (layerMeta = NoSig => ~cres.hit)
        /\ (stored # None /\ ck.tokens = stored.tokens
              /\ Contents(bpFiles, ck.paths) = stored.contents => cres.hit)
        /\ (stored # None /\ OneTokenDiffers(ck.tokens, stored.tokens) => ~cres.hit)

\* A later build with the files unchanged and one token changed: a miss.
C4_Witness ==
    /\ CacheAnswered
    /\ stored # None
    /\ OneTokenDiffers(ck.tokens, stored.tokens)
    /\ Contents(bpFiles, ck.paths) = stored.contents
    /\ ~cres.hit

IsReordering(s, t) ==
    /\ Len(s) = 2 /\ Len(t) = 2
    /\ s[1] = t[2] /\ s[2] = t[1]
    /\ s # t

Composed == launching /\ applied = Len(recorded)

OpsOn(n) == {i \in 1..Len(recorded) : recorded[i].name = n}
OverridesOn(n) == {i \in OpsOn(n) : recorded[i].kind = "override"}
Last(S) == CHOOSE i \in S : \A j \in S : j <= i
First(S) == CHOOSE i \in S : \A j \in S : i <= j

C7_DefaultOverridePrecedence ==
    Composed =>
        \A n \in ComposedNames :
            (\A i \in OpsOn(n) : recorded[i].kind \in {"default", "override"}) =>
                IF OverridesOn(n) # {}
                THEN cenv[n] = SetTo(recorded[Last(OverridesOn(n))].value)
                ELSE IF ambient[n].ok \/ OpsOn(n) = {}
                THEN cenv[n] = ambient[n]
                ELSE cenv[n] = SetTo(recorded[First(OpsOn(n))].value)

\* Default("X","a") alone, with X set to "c" in the ambient environment: "c".
C7_Witness ==
    /\ Composed
    /\ recorded = <<Op("default", "X", "", "a")>>
    /\ ambient["X"] = SetTo("c")
    /\ cenv["X"] = SetTo("c")

(***************************************************************************)
(* C8.  After a Prepend or an Append is applied, the variable holds exactly *)
(* the new value when it was unset or empty before, and else the new value  *)
(* and the value before joined by the separator once, the new value first   *)
(* for Prepend and last for Append; no other variable changes.              *)
(***************************************************************************)
LastApplied == recorded[applied]

C8_PrependAppend ==
    (applied > 0 /\ LastApplied.kind \in {"prepend", "append"}) =>
        LET n == LastApplied.name
            v == LastApplied.value
            old == IF before[n].ok THEN before[n].val ELSE ""
        IN  /\ cenv[n].ok
            /\ old = "" => cenv[n].val = v
            /\ (old # "" /\ LastApplied.kind = "prepend")
                  => cenv[n].val = v \o LastApplied.sep \o old
            /\ (old # "" /\ LastApplied.kind = "append")
                  => cenv[n].val = old \o LastApplied.sep \o v
            /\ \A m \in ComposedNames \ {n} : cenv[m] = before[m]

\* Prepend("PATH", ":", "/new") on a PATH that an earlier operation set to
\* "a" gives "/new:a".
C8_Witness ==
    /\ applied = 2
    /\ LastApplied = Op("prepend", "PATH", ":", "/new")
    /\ before["PATH"] = SetTo("a")
    /\ cenv["PATH"] = SetTo("/new:a")

(***************************************************************************)
(* C10.  With at least one exec mock registered, a command issued through   *)
(* the Context's exec spawns no real process for the command, and: when a   *)
(* registered pattern matches the full command line, it returns exactly the *)
(* scripted stdout, stderr and exit code of one of the registered patterns  *)
(* that match, as that pattern was registered last (registration order does *)
(* not decide among several matching patterns, and registering a pattern    *)
(* again replaces its script); when no registered pattern matches, it is    *)
(* reported as a configuration error.                                       *)
(***************************************************************************)
CommandIssued == Len(opts) > 0 /\ result.kind # "none"

Registrations == 1..Len(opts)

RegisteredMatches(i) == MatchString(opts[i].commandRegex, command)

\* The last option of one registration that sets a field (0: none does).
LastSetting(mopts, field) ==
    LET setting == { k \in 1..Len(mopts) : mopts[k].field = field }
    IN  IF setting = {} THEN 0
        ELSE CHOOSE k \in setting : \A k2 \in setting : k2 <= k

ScriptedText(mopts, field) ==
    IF LastSetting(mopts, field) = 0 THEN ""
    ELSE mopts[LastSetting(mopts, field)].msg

ScriptedCode(mopts) ==
    IF LastSetting(mopts, "ExitCode") = 0 THEN 0
    ELSE mopts[LastSetting(mopts, "ExitCode")].code

ReturnsScriptOf(i) ==
    /\ result.kind = "mock"
    /\ result.Stdout = ScriptedText(opts[i].mopts, "Stdout")
    /\ result.Stderr = ScriptedText(opts[i].mopts, "Stderr")
    /\ result.ExitCode = ScriptedCode(opts[i].mopts)

C10_MockGoverns ==
    CommandIssued =>
        /\ spawned = {}
        /\ IF \E i \in Registrations : RegisteredMatches(i)
           THEN \E i \in Registrations :
                    /\ RegisteredMatches(i)
                    /\ \A j \in Registrations :
                           j > i => opts[j].commandRegex # opts[i].commandRegex
                    /\ ReturnsScriptOf(i)
           ELSE result.kind = "configError"

\* The statement as first made: the first registered pattern that matches
\* is the one whose script is returned.
C10_FirstRegisteredGoverns ==
    CommandIssued =>
        /\ spawned = {}
        /\ IF \E i \in Registrations : RegisteredMatches(i)
           THEN LET first == CHOOSE i \in Registrations :
                                 /\ RegisteredMatches(i)
                                 /\ \A j \in Registrations :
                                        RegisteredMatches(j) => i <= j
                IN  ReturnsScriptOf(first)
           ELSE result.kind = "configError"

\* Two patterns registered, both matching the command issued, and the
\* script returned is the one of the pattern registered second.
C10_Witness ==
    /\ CommandIssued
    /\ Len(opts) = 2
    /\ opts[1].commandRegex # opts[2].commandRegex
    /\ RegisteredMatches(1)
    /\ RegisteredMatches(2)
    /\ ReturnsScriptOf(2)
    /\ ~ReturnsScriptOf(1)
    /\ spawned = {}

(***************************************************************************)
(* C11.  In a build of the legacy worker whose syntax check failed (node    *)
(* --check <file> ended with a non-zero exit code): no layer is acquired    *)
(* and no web process is added after the check, buildFn does not return     *)
(* nil, and the process does not exit with 0.                               *)
(***************************************************************************)
SyntaxCheckFailed ==
    /\ cfg.buildpackPhase = buildPhase
    /\ cfg.fn = "legacy"
    /\ \E i \in 1..Len(events) :
          /\ events[i].op = "Exec"
          /\ events[i].cmd[1] = "node"
          /\ events[i].exit # 0

C11_SyntaxErrorFailsBuild ==
    SyntaxCheckFailed =>
        /\ l = NoLayer
        /\ processes = <<>>
        /\ ret.kind # "nil"
        /\ pc = "exited" => exitCode # 0

(***************************************************************************)
(* C12.  Two runs of detectFn and buildFn on the same Context snapshot and  *)
(* the same file tree give the same detect result, the same error and the   *)
(* same recorded environment operations, whatever the process environment   *)
(* of each run is when the function runs.                                   *)
(***************************************************************************)
C12_OutcomeOfSnapshotOnly ==
    spc = "ran" =>
        /\ outcome[1].detect = outcome[2].detect
        /\ outcome[1].build.err = outcome[2].build.err
        /\ outcome[1].build.ops = outcome[2].build.ops

\* The step-by-step buildFn and buildFnOutcome agree: a first build of the
\* legacy worker that got past the worker install ends as buildFnOutcome says
\* for the environment and the tree it ran on.
BuildFnOutcomeAgrees ==
    LET o == buildFnOutcome(osEnv, [files |-> appFiles, pkg |-> packageJSON])
    IN  (cfg.buildpackPhase = buildPhase /\ cfg.fn = "legacy"
           /\ pc \in {"returned", "exited", "main"}
           /\ phaseResult.err.msg \notin {"writing file", "changing to code dir"}
           /\ locals.ierr = NoErr) =>
            IF ExitCalled
            THEN o.exited /\ l.LaunchEnvironment = o.ops /\ Len(processes) = o.web
            ELSE /\ ~o.exited
                 /\ ret.kind = o.err.kind /\ ret.msg = o.err.msg
                 /\ (l # NoLayer => l.LaunchEnvironment = o.ops)
                 /\ (l = NoLayer => o.ops = <<>>)
                 /\ Len(processes) = o.web

(***************************************************************************)
(* C13.  What Result.CommandExecuted(command) returned is TRUE exactly when *)
(* the command was executed through ctx.Exec during the phase, for every    *)
(* captured output made of "Running ... Done" blocks and other log text.    *)
(***************************************************************************)
C13_CommandExecutedIffExecuted ==
    asked # "" => (answer <=> asked \in executed)

(***************************************************************************)
(* C14.  In every build of the legacy worker, the events of the worker      *)
(* install are, in this order, cache miss, clear layer, copy (cp) and       *)
(* install (npm), or a beginning of that list; the copy starts on an empty  *)
(* layer directory, and the install on one that holds nothing but what the  *)
(* copy of this build put there.                                            *)
(***************************************************************************)
IsInstallEvent(e) ==
    \/ e.op \in {"CacheMiss", "ClearLayer"}
    \/ e.op = "Exec" /\ e.cmd[1] \in {"cp", "npm"}

InstallTrace ==
    LET sel == SelectSeq(events, IsInstallEvent)
    IN  [i \in 1..Len(sel) |-> IF sel[i].op = "Exec" THEN sel[i].cmd[1] ELSE sel[i].op]

CopiedNow ==
    { [name |-> "package.json", data |-> bpFiles[ConverterPJS].data],
      [name |-> "worker.js", data |-> bpFiles[ConverterWJS].data] }

C14_ClearBeforeCopyAndInstall ==
    (cfg.buildpackPhase = buildPhase /\ cfg.fn = "legacy") =>
        /\ InstallTrace \in { <<>>,
                              <<"CacheMiss", "ClearLayer">>,
                              <<"CacheMiss", "ClearLayer", "cp">>,
                              <<"CacheMiss", "ClearLayer", "cp", "npm">> }
        /\ pc = "I147" => layerDir = {}
        /\ pc = "I148" => layerDir \subseteq CopiedNow

\* A later build, on a layer the build before filled, met a miss and went
\* through all four events.
C14_Witness ==
    /\ cfg.buildpackPhase = buildPhase
    /\ cfg.fn = "legacy"
    /\ layerMeta # NoSig
    /\ InstallTrace = <<"CacheMiss", "ClearLayer", "cp", "npm">>
    /\ \E f \in layerDir : f.name = "node_modules"

(***************************************************************************)
(* C15.  In a build of the legacy worker that met a cache hit, every step   *)
(* from the hit to the end of the build, the persisting of the layer        *)
(* included, leaves the layer directory and the stored signature as they    *)
(* were, and neither a cache miss, a clearing of the layer, cp nor npm is   *)
(* among the build's events.                                                *)
(***************************************************************************)
CacheHitInBuild ==
    /\ cfg.buildpackPhase = buildPhase
    /\ cfg.fn = "legacy"
    /\ "CacheHit" \in EventOps

C15_CacheHitLeavesLayer ==
    [][ CacheHitInBuild' =>
            /\ layerDir' = layerDir
            /\ layerMeta' = layerMeta
            /\ InstallTrace' = <<>> ]_vars

\* A build that met a hit on a filled layer has succeeded and persisted.
C15_Witness ==
    /\ CacheHitInBuild
    /\ pc = "exited"
    /\ exitCode = 0
    /\ layerMeta = l.Metadata
    /\ \E f \in layerDir : f.name = "node_modules"

(***************************************************************************)
(* C16.  In a build of the legacy worker run in an environment in which     *)
(* detectFn opts in, buildFn does not end the phase with Exit(1, internal   *)
(* error) for a function target that was not found.                         *)
(***************************************************************************)
ForcedExitForTarget ==
    /\ cfg.buildpackPhase = buildPhase
    /\ cfg.fn = "legacy"
    /\ \E i \in 1..Len(events) :
          /\ events[i].op = "Exit"
          /\ events[i].code = 1
          /\ events[i].err.kind = "internal"

DetectOptsIn == detectFnResult(osEnv).Pass

C16_NoForcedExitAfterDetect ==
    DetectOptsIn => ~ForcedExitForTarget

(***************************************************************************)
(* C17.  Once buildFn of the legacy worker has selected the function file,  *)
(* the file is package.json's main when package.json exists and main is     *)
(* not empty, else index.js when that exists, else function.js.  When the   *)
(* selected file does not exist, buildFn goes no further than the check of  *)
(* the file: it returns the user error "<file> does not exist", no command  *)
(* has been run and no layer has been acquired.                             *)
(***************************************************************************)
FnFileSelected ==
    /\ cfg.buildpackPhase = buildPhase
    /\ cfg.fn = "legacy"
    /\ locals.fnFile # ""

C17_FunctionFileSelection ==
    FnFileSelected =>
        /\ ("package.json" \in appFiles /\ packageJSON.Main # "")
              => locals.fnFile = packageJSON.Main
        /\ ("package.json" \notin appFiles \/ packageJSON.Main = "")
              => locals.fnFile = (IF "index.js" \in appFiles THEN "index.js"
                                  ELSE "function.js")
        /\ (locals.fnFile \notin appFiles) =>
              /\ pc \in {"B73", "returned", "main", "exited"}
              /\ pc # "B73" =>
                    /\ ret.kind = "user"
                    /\ ret.msg = locals.fnFile \o " does not exist"
              /\ \A i \in 1..Len(events) : events[i].op # "Exec"
              /\ l = NoLayer

\* package.json names a main that is not there, next to an index.js that is:
\* the build has ended on the user error for the main, exit code 1.
C17_Witness ==
    /\ FnFileSelected
    /\ "index.js" \in appFiles
    /\ locals.fnFile = "lib/main.js"
    /\ ret = Returned(UserErrorf("lib/main.js does not exist"), FALSE)
    /\ pc = "exited"
    /\ exitCode = 1
    /\ l = NoLayer

(***************************************************************************)
(* C18.  In a build of the legacy worker: when buildFn has returned an      *)
(* error, no launch or build environment operation is recorded on the       *)
(* layer and no web process is added; and when a web process is added,      *)
(* there is exactly one, buildFn has returned nil, and every environment    *)
(* operation of the build is recorded already (NODE_PATH when the           *)
(* application has node_modules, the function's name and entry point, the   *)
(* trigger type when the signature type is set, and the four defaults).     *)
(***************************************************************************)
LegacyBuild == cfg.buildpackPhase = buildPhase /\ cfg.fn = "legacy"

BuildFnReturnedError ==
    /\ LegacyBuild
    /\ ret.kind \in {"user", "internal", "plain"}

RecordedNames == [i \in 1..Len(l.LaunchEnvironment) |-> l.LaunchEnvironment[i].name]

AllOperationNames ==
    (IF "node_modules" \in appFiles THEN <<"NODE_PATH">> ELSE <<>>)
    \o <<"X_GOOGLE_FUNCTION_NAME", "X_GOOGLE_ENTRY_POINT">>
    \o (IF osEnv[FunctionSignatureType].ok
        THEN <<"X_GOOGLE_FUNCTION_TRIGGER_TYPE">> ELSE <<>>)
    \o <<"X_GOOGLE_CODE_LOCATION", "X_GOOGLE_NEW_FUNCTION_SIGNATURE",
         "X_GOOGLE_WORKER_PORT", "WORKER_PORT">>

C18_ErrorRecordsNothing ==
    /\ BuildFnReturnedError =>
          /\ processes = <<>>
          /\ l # NoLayer =>
                l.LaunchEnvironment = <<>> /\ l.BuildEnvironment = <<>>
    /\ (LegacyBuild /\ processes # <<>>) =>
          /\ Len(processes) = 1
          /\ processes[1].type = "web"
          /\ ret.kind = "nil"
          /\ RecordedNames = AllOperationNames
          /\ l.BuildEnvironment = <<>>

\* The worker install failed on a layer that was acquired: buildFn has
\* returned the wrapped error with nothing recorded on the layer.
C18_Witness ==
    /\ BuildFnReturnedError
    /\ l # NoLayer
    /\ ret.msg = "installing worker.js: npm version"
    /\ l.LaunchEnvironment = <<>>
    /\ processes = <<>>

=============================================================================
